---- MODULE Spec2Model ----
(***************************************************************************)
(* Session lifecycle and playback scheduling of the useTranslator hook     *)
(* (src/hooks/useTranslator.ts) as driven by App (src/App.tsx).            *)
(*                                                                         *)
(* Every handler is one action.  A handler that awaits is split at the     *)
(* await: connect() at getUserMedia (line 100), onmessage at the decode    *)
(* (line 161).  Whatever the runtime delivers while a handler is suspended *)
(* may run in between.  Decode continuations resume in the order in which  *)
(* they were suspended: decodeAudioData (src/unnamed/part_000:75-91) has   *)
(* no await of its own, so its promise is settled when it returns.         *)
(*                                                                         *)
(* Spec is the session with its playback, SpecStream the session with its  *)
(* capture callbacks, SpecApp the session as App's button drives it,       *)
(* SpecVolume the same with the browser's animation frames.  SpecPcm and   *)
(* SpecResample run the audio utilities of src/unnamed/part_000 on frames  *)
(* drawn from bounded sets, SpecCapture runs the capture callback on one   *)
(* block at every rate of the input context.                               *)
(***************************************************************************)
EXTENDS Integers, Sequences, FiniteSets

\* Bounds of the model.
MaxAttempts == 2   \* connect() invocations that get past the credential check
MaxMsgs == 2       \* server messages that carry audio
MaxDur == 2        \* longest decoded buffer, in clock ticks
MaxTime == 1       \* last tick of a rendering context's clock
MaxFrames == 2     \* animation frames that are followed
MaxLevel == 2      \* highest average the analyser reports
MaxChunks == 2     \* capture callbacks that are followed to the send

Unit == 65536      \* resolution of a float sample: the sample n stands for n / Unit
OverRange == 2     \* samples range over [-OverRange, OverRange]
MaxKHz == 96       \* highest whole-kHz rate of the input context
MaxLen == 12       \* longest frame handed to downsampleBuffer, the capture block apart

Attempts == 1 .. MaxAttempts
Durations == 1 .. MaxDur
NoError == "null"
Levels == 0 .. MaxLevel

VARIABLES
    API_KEY,            \* TRUE iff process.env.API_KEY is a non-empty string
    connectionState,    \* useState<ConnectionState>
    error,              \* useState<string | null>
    inputContextRef,    \* 0 is null, k is the input context made by attempt k
    outputContextRef,   \* 0 is null, k is the output context made by attempt k
    inputSourceRef,     \* 0 is null, k is the source node made by onopen of session k
    processorRef,       \* 0 is null, k is the processor made by onopen of session k
    streamRef,          \* 0 is null, k is the stream granted to attempt k
    sessionPromiseRef,  \* 0 is null, k is the promise of ai.live.connect of attempt k
    nextStartTimeRef,   \* the playback cursor
    sourcesRef,         \* the live set: indices into scheduled
    inputCtx,           \* per attempt: "none", "running", "closed"
    outputCtx,          \* per attempt: "none", "running", "closed"
    currentTime,        \* per attempt: the output context's clock
    stream,             \* per attempt: "none", "live", "stopped"
    processor,          \* per session: "none", "capturing", "detached"
    processorCtx,       \* per session: the input context its processor was created on
    promise,            \* per attempt: "none", "pending", "resolved", "rejected"
    socket,             \* per attempt: "none", "connecting", "open", "closed"
    closeRequested,     \* sessions whose promise carries disconnect's then(close)
    pc,                 \* per attempt: connect() is "none", "awaitMic", "done"
    decoding,           \* onmessage handlers suspended at the decode, oldest first
    scheduled,          \* every source.start() so far, in the order of the calls
    nAttempts,          \* attempts made so far
    nMsgs,              \* audio messages received so far
    lastCall,           \* history: the last of connect()/disconnect() the caller made
    afterInterrupt,     \* history: an interruption was processed, no audio message since
    bumped,             \* history: since the last source.start() the cursor was reset or
                        \*          found behind the clock
    buffer,             \* Float32Array handed to an audio utility, in units of 1 / Unit
    inputSampleRate,    \* downsampleBuffer's inputSampleRate
    outputSampleRate,   \* downsampleBuffer's outputSampleRate
    result,             \* Float32Array returned by downsampleBuffer
    pcm,                \* ArrayBuffer returned by float32To16BitPCM, as bytes
    float32Data,        \* float32Data of decodeAudioData, in units of 1 / 32768
    pcmBlob,            \* the Blob of createPcmBlob: base64 digits and the rate of its tag
    stage,              \* how far the audio utilities have run: "idle", "input", ...
    chunks,             \* the chunks the capture callbacks have handed to then(), in order
    closureConnected,   \* per attempt: connectionState === CONNECTED as the closures of
                        \*              that connect() call read it
    rafCallbacks,       \* attempts whose updateVolume is requested for the next frame
    volume,             \* useState<number>
    nSetVolume,         \* history: calls of setVolume so far
    nFrames             \* animation frames the browser has run so far

refs == <<inputContextRef, outputContextRef, inputSourceRef, processorRef, streamRef,
          sessionPromiseRef>>
playback == <<nextStartTimeRef, sourcesRef, scheduled>>
resources == <<inputCtx, outputCtx, stream, processor, processorCtx>>
remote == <<promise, socket, closeRequested>>
history == <<lastCall, afterInterrupt, bumped>>
audioUtils == <<buffer, inputSampleRate, outputSampleRate, result, pcm, float32Data,
                pcmBlob, stage>>
monitor == <<closureConnected, rafCallbacks, volume, nSetVolume, nFrames>>
vars == <<API_KEY, connectionState, error, refs, playback, resources, remote, currentTime,
          pc, decoding, nAttempts, nMsgs, history, audioUtils, chunks, monitor>>

Max(a, b) == IF a >= b THEN a ELSE b
Min(a, b) == IF a <= b THEN a ELSE b

\* the hook as useTranslator() returns it on the first render
InitSession ==
    /\ API_KEY \in BOOLEAN
    /\ connectionState = "DISCONNECTED"
    /\ error = NoError
    /\ inputContextRef = 0 /\ outputContextRef = 0 /\ inputSourceRef = 0
    /\ processorRef = 0 /\ streamRef = 0 /\ sessionPromiseRef = 0
    /\ nextStartTimeRef = 0
    /\ sourcesRef = {}
    /\ inputCtx = [k \in Attempts |-> "none"]
    /\ outputCtx = [k \in Attempts |-> "none"]
    /\ currentTime = [k \in Attempts |-> 0]
    /\ stream = [k \in Attempts |-> "none"]
    /\ processor = [k \in Attempts |-> "none"]
    /\ processorCtx = [k \in Attempts |-> 0]
    /\ promise = [k \in Attempts |-> "none"]
    /\ socket = [k \in Attempts |-> "none"]
    /\ closeRequested = {}
    /\ pc = [k \in Attempts |-> "none"]
    /\ decoding = <<>>
    /\ scheduled = <<>>
    /\ nAttempts = 0
    /\ nMsgs = 0
    /\ lastCall = "none"
    /\ afterInterrupt = FALSE
    /\ bumped = FALSE
    /\ chunks = <<>>
    /\ closureConnected = [k \in Attempts |-> FALSE]
    /\ rafCallbacks = {}
    /\ volume = 0
    /\ nSetVolume = 0
    /\ nFrames = 0

\* no Blob has been made
NoBlob == [data |-> <<>>, mimeType |-> 0]

\* no audio utility has been handed a frame
AudioIdle ==
    /\ buffer = <<>> /\ inputSampleRate = 0 /\ outputSampleRate = 0
    /\ result = <<>> /\ pcm = <<>> /\ float32Data = <<>>
    /\ pcmBlob = NoBlob
    /\ stage = "idle"

Init == InitSession /\ AudioIdle

(***************************************************************************)
(* Playback timeline.  An entry of scheduled is one source.start(when)     *)
(* call: `when` is the argument, `at` the context's clock at the call.     *)
(* AudioBufferSourceNode.start plays at once when `when` is in the past.   *)
(***************************************************************************)
EffStart(e) == Max(e.when, e.at)
EffEnd(e) ==
    IF e.stoppedAt >= 0
    THEN Max(EffStart(e), Min(e.stoppedAt, EffStart(e) + e.dur))
    ELSE EffStart(e) + e.dur

\* line 159: nextStartTimeRef.current = Math.max(nextStartTimeRef.current, ctx.currentTime)
StartTime(cursor, clock) == Max(cursor, clock)

\* line 174 with = written for +=: the cursor forgets where the entry started
AdvanceCursorAssigned(cursor, dur) == dur

\* line 174: nextStartTimeRef.current += audioBuffer.duration
AdvanceCursor(cursor, dur) == cursor + dur

\* lines 195-197 and 259-261: sourcesRef.current.forEach(source => source.stop())
StopAll(sched, live) ==
    [i \in DOMAIN sched |->
        IF i \in live /\ sched[i].stoppedAt = -1
        THEN [sched[i] EXCEPT !.stoppedAt = currentTime[sched[i].ctx]]
        ELSE sched[i]]

\* history: every suspended handler has now been overtaken by a reset of the cursor
Cancel(q) == [i \in DOMAIN q |-> [q[i] EXCEPT !.cancelled = TRUE]]

(***************************************************************************)
(* connect(), lines 66-100: up to the await of getUserMedia.  App offers   *)
(* the start request when the state is neither CONNECTED (the button then  *)
(* stops) nor CONNECTING (the button is disabled).                         *)
(***************************************************************************)
connect ==
    /\ connectionState \notin {"CONNECTED", "CONNECTING"}
    /\ lastCall' = "connect"
    /\ IF ~API_KEY
       THEN /\ error' = "API Key is missing."
            /\ UNCHANGED <<monitor, audioUtils, chunks, API_KEY, connectionState, refs,
                           playback, resources, remote, currentTime, pc, decoding,
                           nAttempts, nMsgs, afterInterrupt, bumped>>
       ELSE /\ nAttempts < MaxAttempts
            /\ LET k == nAttempts + 1 IN
               /\ connectionState' = "CONNECTING"
               /\ error' = NoError
               /\ inputContextRef' = k
               /\ outputContextRef' = k
               /\ inputCtx' = [inputCtx EXCEPT ![k] = "running"]
               /\ outputCtx' = [outputCtx EXCEPT ![k] = "running"]
               /\ pc' = [pc EXCEPT ![k] = "awaitMic"]
               /\ nAttempts' = k
               /\ closureConnected' =
                      [closureConnected EXCEPT ![k] = (connectionState = "CONNECTED")]
            /\ UNCHANGED <<rafCallbacks, volume, nSetVolume, nFrames>>
            /\ UNCHANGED <<audioUtils, chunks, API_KEY, inputSourceRef, processorRef,
                           streamRef, sessionPromiseRef, playback, stream, processor,
                           processorCtx, remote, currentTime, decoding, nMsgs,
                           afterInterrupt, bumped>>

\* lines 216-219: the catch block of connect()
connectCatch(k) ==
    /\ error' = "Failed to connect."
    /\ connectionState' = "ERROR"
    /\ pc' = [pc EXCEPT ![k] = "done"]

(***************************************************************************)
(* connect(), lines 100-214: getUserMedia resolved.  Line 104 reads        *)
(* inputContextRef.current.sampleRate: a TypeError when a disconnect() has *)
(* nulled the ref meanwhile, caught at line 216.  ai.live.connect returns  *)
(* a promise that is stored and not awaited.                               *)
(***************************************************************************)
micGranted(k) ==
    /\ pc[k] = "awaitMic"
    /\ streamRef' = k
    /\ stream' = [stream EXCEPT ![k] = "live"]
    /\ IF inputContextRef = 0
       THEN /\ connectCatch(k)
            /\ UNCHANGED <<sessionPromiseRef, remote>>
       ELSE /\ sessionPromiseRef' = k
            /\ promise' = [promise EXCEPT ![k] = "pending"]
            /\ socket' = [socket EXCEPT ![k] = "connecting"]
            /\ pc' = [pc EXCEPT ![k] = "done"]
            /\ UNCHANGED <<connectionState, error, closeRequested>>
    /\ UNCHANGED <<monitor, audioUtils, chunks, API_KEY, inputContextRef,
                   outputContextRef, inputSourceRef, processorRef, playback, inputCtx,
                   outputCtx, processor, processorCtx, currentTime, decoding,
                   nAttempts, nMsgs, lastCall, afterInterrupt, bumped>>

\* connect(), lines 100 and 216-219: getUserMedia rejected (permission denied)
micDenied(k) ==
    /\ pc[k] = "awaitMic"
    /\ connectCatch(k)
    /\ UNCHANGED <<monitor, audioUtils, chunks, API_KEY, refs, playback, resources,
                   remote, currentTime, decoding, nAttempts, nMsgs, lastCall,
                   afterInterrupt, bumped>>

(***************************************************************************)
(* disconnect(), lines 222-266, without its history bookkeeping: also the  *)
(* last statement of onerror (line 211).  sock is the sockets as the       *)
(* caller leaves them.  The then(close) of lines 225-227 runs at once on a *)
(* resolved promise and waits for onopen on a pending one.                 *)
(***************************************************************************)
\* line 226: session.close()
CloseSession(sock, k) == IF sock[k] = "open" THEN [sock EXCEPT ![k] = "closing"] ELSE sock

Teardown(sock) ==
    /\ closeRequested' = IF sessionPromiseRef # 0 /\ promise[sessionPromiseRef] = "pending"
                         THEN closeRequested \cup {sessionPromiseRef}
                         ELSE closeRequested
    /\ socket' = IF sessionPromiseRef # 0 /\ promise[sessionPromiseRef] = "resolved"
                 THEN CloseSession(sock, sessionPromiseRef)
                 ELSE sock
    /\ sessionPromiseRef' = 0
    /\ stream' = IF streamRef # 0 THEN [stream EXCEPT ![streamRef] = "stopped"] ELSE stream
    /\ streamRef' = 0
    /\ processor' = IF processorRef # 0
                    THEN [processor EXCEPT ![processorRef] = "detached"]
                    ELSE processor
    /\ processorRef' = 0
    /\ inputSourceRef' = 0
    /\ inputCtx' = IF inputContextRef # 0
                   THEN [inputCtx EXCEPT ![inputContextRef] = "closed"]
                   ELSE inputCtx
    /\ inputContextRef' = 0
    /\ outputCtx' = IF outputContextRef # 0
                    THEN [outputCtx EXCEPT ![outputContextRef] = "closed"]
                    ELSE outputCtx
    /\ outputContextRef' = 0
    /\ scheduled' = StopAll(scheduled, sourcesRef)
    /\ sourcesRef' = {}
    /\ nextStartTimeRef' = 0
    /\ connectionState' = "DISCONNECTED"
    /\ decoding' = Cancel(decoding)
    /\ bumped' = TRUE
    /\ UNCHANGED <<monitor, audioUtils, chunks, API_KEY, processorCtx, promise,
                   currentTime, pc, nAttempts, nMsgs, afterInterrupt>>

\* disconnect() that trusts the connection state instead of the refs: while CONNECTING
\* it takes nothing to be set up yet and only records the state
disconnectUnlessConnecting ==
    /\ lastCall' = "disconnect"
    /\ IF connectionState = "CONNECTING"
       THEN /\ connectionState' = "DISCONNECTED"
            /\ UNCHANGED <<monitor, audioUtils, chunks, API_KEY, refs, playback,
                           resources, remote, currentTime, pc, decoding, nAttempts,
                           nMsgs, afterInterrupt, bumped>>
       ELSE Teardown(socket)
    /\ UNCHANGED error

\* disconnect() called by the application: the stop button, the unmount cleanup of
\* lines 268-273, or any other holder of the hook's result
disconnect ==
    /\ lastCall' = "disconnect"
    /\ Teardown(socket)
    /\ UNCHANGED error

(***************************************************************************)
(* The remote session of attempt k (the SDK behind ai.live.connect, lines  *)
(* 106-214): it opens or fails, the promise settles, callbacks arrive.     *)
(***************************************************************************)
\* lines 142-144: the then(send) callbacks that wait on promise k run when it settles.
\* They were registered while sessionPromiseRef held k, so before any then(close) of
\* disconnect(), which nulls the ref: on resolution they find the session open.  On
\* rejection catch(console.error) logs and the chunk is dropped.
Settle(q, k, outcome) ==
    [i \in DOMAIN q |->
        IF q[i].to = k /\ q[i].status = "waiting" THEN [q[i] EXCEPT !.status = outcome]
        ELSE q[i]]

\* line 84 sets inputAnalyserRef in every connect() that passes the credential check
\* and nothing clears it: 0 is null, k is the analyser of attempt k
inputAnalyserRef == nAttempts

\* lines 89-97, the updateVolume of attempt k: its connectionState is the one the
\* closure of that connect() call holds; level is the average of the analyser's bytes
updateVolume(k, level) ==
    IF inputAnalyserRef # 0 /\ closureConnected[k]
    THEN /\ volume' = level
         /\ nSetVolume' = nSetVolume + 1
         /\ rafCallbacks' = rafCallbacks \cup {k}
    ELSE UNCHANGED <<rafCallbacks, volume, nSetVolume>>

\* lines 120-152; the promise of line 106 resolves with the session as the socket
\* opens, and a then(close) waiting on it closes the session.  Line 151 calls the
\* updateVolume of this attempt.
onopen(k) ==
    /\ socket[k] = "connecting"
    /\ promise' = [promise EXCEPT ![k] = "resolved"]
    /\ socket' = [socket EXCEPT ![k] = IF k \in closeRequested THEN "closing" ELSE "open"]
    /\ closeRequested' = closeRequested \ {k}
    /\ chunks' = Settle(chunks, k, "sent")
    /\ connectionState' = "CONNECTED"
    /\ IF inputContextRef = 0 \/ streamRef = 0
       THEN UNCHANGED <<inputSourceRef, processorRef, processor, processorCtx,
                        rafCallbacks, volume, nSetVolume>>
       ELSE /\ inputSourceRef' = k
            /\ processorRef' = k
            /\ processor' = [processor EXCEPT ![k] = "capturing"]
            /\ processorCtx' = [processorCtx EXCEPT ![k] = inputContextRef]
            /\ \E level \in Levels : updateVolume(k, level)
    /\ UNCHANGED <<closureConnected, nFrames>>
    /\ UNCHANGED <<audioUtils, API_KEY, error, inputContextRef, outputContextRef,
                   streamRef, sessionPromiseRef, playback, inputCtx, outputCtx, stream,
                   currentTime, pc, decoding, nAttempts, nMsgs, lastCall,
                   afterInterrupt, bumped>>

\* the promise of line 106 rejects: nothing awaits it and no callback is delivered
handshakeRejected(k) ==
    /\ promise[k] = "pending"
    /\ socket[k] = "connecting"
    /\ promise' = [promise EXCEPT ![k] = "rejected"]
    /\ socket' = [socket EXCEPT ![k] = "closed"]
    /\ chunks' = Settle(chunks, k, "dropped")
    /\ UNCHANGED <<monitor, audioUtils, API_KEY, connectionState, error, refs,
                   playback, resources, closeRequested, currentTime, pc, decoding,
                   nAttempts, nMsgs, lastCall, afterInterrupt, bumped>>

\* lines 202-204
onclose(k) ==
    /\ socket[k] \in {"connecting", "open", "closing"}
    /\ socket' = [socket EXCEPT ![k] = "closed"]
    /\ connectionState' = "DISCONNECTED"
    /\ UNCHANGED <<monitor, audioUtils, chunks, API_KEY, error, refs, playback,
                   resources, promise, closeRequested, currentTime, pc, decoding,
                   nAttempts, nMsgs, lastCall, afterInterrupt, bumped>>

\* lines 205-212: setConnectionState(ERROR) is followed, in the same handler, by
\* disconnect(), whose last statement is setConnectionState(DISCONNECTED).  A socket
\* that reports an error is closed next (onclose follows).
onerror(k) ==
    /\ socket[k] \in {"connecting", "open", "closing"}
    /\ error' = "Connection error"
    /\ Teardown([socket EXCEPT ![k] = "closing"])
    /\ UNCHANGED lastCall

(***************************************************************************)
(* onaudioprocess, lines 133-145, of the processor made by onopen of       *)
(* session k.  The callback fires while it is installed on a processor     *)
(* whose context runs.  The chunk goes to whatever sessionPromiseRef holds *)
(* now: nowhere when it is null, to the session when the promise is        *)
(* resolved, to a then() that waits when it is pending.  throws is         *)
(* whether sendRealtimeInput throws for this chunk; a session that is not  *)
(* open takes no chunk.  A chunk record is, as history, the processor it   *)
(* came from, the promise it was handed to and what became of it.          *)
(***************************************************************************)
Capturing(k) ==
    /\ processor[k] = "capturing"
    /\ processorCtx[k] # 0 /\ inputCtx[processorCtx[k]] = "running"

\* lines 142-144 with the chain kept in place of the ref: after a send has thrown, the
\* promise that later chunks are chained on is a rejected one
SendStatusChained(p, throws) ==
    IF p = 0 \/ \E i \in DOMAIN chunks : chunks[i].to = p /\ chunks[i].threw THEN "dropped"
    ELSE IF promise[p] = "pending" THEN "waiting"
    ELSE IF promise[p] = "resolved" /\ socket[p] = "open" /\ ~throws THEN "sent"
    ELSE "dropped"

\* lines 142-144: what becomes of a chunk handed to sessionPromiseRef.current = p
SendStatus(p, throws) ==
    IF p = 0 THEN "dropped"
    ELSE IF promise[p] = "pending" THEN "waiting"
    ELSE IF promise[p] = "resolved" /\ socket[p] = "open" /\ ~throws THEN "sent"
    ELSE "dropped"

onaudioprocess(k, throws) ==
    /\ Capturing(k)
    /\ Len(chunks) < MaxChunks
    /\ chunks' = Append(chunks,
           [proc |-> k, to |-> sessionPromiseRef, threw |-> throws,
            status |-> SendStatus(sessionPromiseRef, throws)])
    /\ UNCHANGED <<monitor, audioUtils, API_KEY, connectionState, error, refs,
                   playback, resources, remote, currentTime, pc, decoding, nAttempts,
                   nMsgs, history>>

(***************************************************************************)
(* onmessage, lines 153-201.  A message is (audio, dur, intr): audio is    *)
(* "ok" (a chunk that decodes to dur ticks), "bad" (a chunk whose decode   *)
(* throws) or "none"; intr is serverContent.interrupted.  A suspended      *)
(* handler holds its locals (ctx, the buffer's dur, whether the decode     *)
(* succeeds, the message's flag) and, as history, msg (its arrival         *)
(* number) and cancelled.                                                  *)
(***************************************************************************)
\* lines 194-200, applied to the playback state (sched, live) the handler has reached
Interrupted(sched, live) ==
    /\ scheduled' = StopAll(sched, live)
    /\ sourcesRef' = {}
    /\ nextStartTimeRef' = 0
    /\ afterInterrupt' = TRUE
    /\ bumped' = TRUE

\* lines 153-161: up to the await of the decode; without audio (or without an output
\* context) the handler runs on to lines 194-200 at once
onmessage(k, audio, dur, intr) ==
    /\ socket[k] = "open"
    /\ IF audio # "none" /\ outputContextRef # 0
       THEN /\ nMsgs < MaxMsgs
            /\ nMsgs' = nMsgs + 1
            /\ nextStartTimeRef' =
                   StartTime(nextStartTimeRef, currentTime[outputContextRef])
            /\ decoding' = Append(decoding,
                   [msg |-> nMsgs + 1, ctx |-> outputContextRef, dur |-> dur,
                    ok |-> (audio = "ok"), interrupted |-> intr, cancelled |-> FALSE])
            /\ bumped' = (bumped \/ nextStartTimeRef < currentTime[outputContextRef])
            /\ afterInterrupt' = FALSE
            /\ UNCHANGED <<sourcesRef, scheduled>>
       ELSE /\ IF intr
               THEN /\ Interrupted(scheduled, sourcesRef)
                    /\ decoding' = Cancel(decoding)
               ELSE UNCHANGED <<playback, decoding, afterInterrupt, bumped>>
            /\ UNCHANGED nMsgs
    /\ UNCHANGED <<monitor, audioUtils, chunks, API_KEY, connectionState, error, refs,
                   resources, remote, currentTime, pc, nAttempts, lastCall>>

\* lines 162-177: the source is started at the cursor as it is now, the cursor is
\* advanced and the source joins the live set
Enqueue(h) ==
    Append(scheduled,
        [msg |-> h.msg, when |-> nextStartTimeRef, at |-> currentTime[h.ctx],
         dur |-> h.dur, ctx |-> h.ctx, audible |-> (outputCtx[h.ctx] = "running"),
         contig |-> ~bumped, stoppedAt |-> -1])

\* lines 161-200: the decode has settled and the oldest suspended handler runs on; a
\* decode that threw is caught at line 178
onmessageResume ==
    /\ decoding # <<>>
    /\ LET h == Head(decoding)
           sched1 == IF h.ok THEN Enqueue(h) ELSE scheduled
           live1 == IF h.ok THEN sourcesRef \cup {Len(scheduled) + 1} ELSE sourcesRef
           cursor1 == IF h.ok THEN AdvanceCursor(nextStartTimeRef, h.dur)
                      ELSE nextStartTimeRef
       IN
       /\ IF h.interrupted
          THEN /\ Interrupted(sched1, live1)
               /\ decoding' = Cancel(Tail(decoding))
          ELSE /\ scheduled' = sched1
               /\ sourcesRef' = live1
               /\ nextStartTimeRef' = cursor1
               /\ bumped' = (bumped /\ ~h.ok)
               /\ decoding' = Tail(decoding)
               /\ UNCHANGED afterInterrupt
    /\ UNCHANGED <<monitor, audioUtils, chunks, API_KEY, connectionState, error, refs,
                   resources, remote, currentTime, pc, nAttempts, nMsgs, lastCall>>

\* line 177: the 'ended' event of a source that has played to its end
ended(i) ==
    /\ i \in sourcesRef
    /\ scheduled[i].audible
    /\ scheduled[i].stoppedAt = -1
    /\ outputCtx[scheduled[i].ctx] = "running"
    /\ currentTime[scheduled[i].ctx] >= EffStart(scheduled[i]) + scheduled[i].dur
    /\ sourcesRef' = sourcesRef \ {i}
    /\ UNCHANGED <<monitor, audioUtils, chunks, API_KEY, connectionState, error, refs,
                   nextStartTimeRef, scheduled, resources, remote, currentTime, pc,
                   decoding, nAttempts, nMsgs, lastCall, afterInterrupt, bumped>>

\* the clocks of the running output contexts advance together
tick ==
    /\ \E k \in Attempts : outputCtx[k] = "running"
    /\ \A k \in Attempts : outputCtx[k] = "running" => currentTime[k] < MaxTime
    /\ currentTime' = [k \in Attempts |->
                          IF outputCtx[k] = "running" THEN currentTime[k] + 1
                          ELSE currentTime[k]]
    /\ UNCHANGED <<monitor, audioUtils, chunks, API_KEY, connectionState, error, refs,
                   playback, resources, remote, pc, decoding, nAttempts, nMsgs,
                   lastCall, afterInterrupt, bumped>>

Next ==
    \/ connect
    \/ disconnect
    \/ \E k \in Attempts : micGranted(k)
    \/ \E k \in Attempts : micDenied(k)
    \/ \E k \in Attempts : onopen(k)
    \/ \E k \in Attempts : handshakeRejected(k)
    \/ \E k \in Attempts : onclose(k)
    \/ \E k \in Attempts : onerror(k)
    \/ \E k \in Attempts, d \in Durations : onmessage(k, "ok", d, FALSE)
    \/ \E k \in Attempts : onmessage(k, "ok", 1, TRUE)
    \/ \E k \in Attempts : onmessage(k, "bad", 1, FALSE)
    \/ \E k \in Attempts : onmessage(k, "none", 1, TRUE)
    \/ onmessageResume
    \/ \E i \in DOMAIN scheduled : ended(i)
    \/ tick

Spec == Init /\ [][Next]_vars

(***************************************************************************)
(* The session with its capture callbacks: the lifecycle as in Next, the   *)
(* chunks captured and sent, and audio messages of one tick that decode or *)
(* fail to decode, on a clock that stands still.                           *)
(***************************************************************************)
NextStream ==
    \/ connect
    \/ disconnect
    \/ \E k \in Attempts : micGranted(k)
    \/ \E k \in Attempts : micDenied(k)
    \/ \E k \in Attempts : onopen(k)
    \/ \E k \in Attempts : handshakeRejected(k)
    \/ \E k \in Attempts : onclose(k)
    \/ \E k \in Attempts : onerror(k)
    \/ \E k \in Attempts, throws \in BOOLEAN : onaudioprocess(k, throws)
    \/ \E k \in Attempts : onmessage(k, "ok", 1, FALSE)
    \/ \E k \in Attempts : onmessage(k, "bad", 1, FALSE)
    \/ onmessageResume

SpecStream == Init /\ [][NextStream]_vars

(***************************************************************************)
(* The session as App drives it (src/App.tsx): one button, start when the  *)
(* state is not CONNECTED, stop when it is, disabled while CONNECTING; the *)
(* runtime delivers the callbacks and the capture blocks.                  *)
(***************************************************************************)
\* App.tsx lines 51-57 and 79
handleToggle ==
    /\ connectionState # "CONNECTING"
    /\ IF connectionState = "CONNECTED" THEN disconnect ELSE connect

NextApp ==
    \/ handleToggle
    \/ \E k \in Attempts : micGranted(k)
    \/ \E k \in Attempts : micDenied(k)
    \/ \E k \in Attempts : onopen(k)
    \/ \E k \in Attempts : handshakeRejected(k)
    \/ \E k \in Attempts : onclose(k)
    \/ \E k \in Attempts : onerror(k)
    \/ \E k \in Attempts, throws \in BOOLEAN : onaudioprocess(k, throws)

SpecApp == Init /\ [][NextApp]_vars

(***************************************************************************)
(* The application with the browser's animation frames.  A frame runs the  *)
(* callbacks that requestAnimationFrame (line 95) has queued for it; a     *)
(* callback that asks again is queued for the next frame.                  *)
(***************************************************************************)
animationFrame(level) ==
    /\ nFrames < MaxFrames
    /\ nFrames' = nFrames + 1
    /\ LET run == {k \in rafCallbacks : inputAnalyserRef # 0 /\ closureConnected[k]}
       IN  /\ rafCallbacks' = run
           /\ IF run = {}
              THEN UNCHANGED <<volume, nSetVolume>>
              ELSE /\ volume' = level
                   /\ nSetVolume' = nSetVolume + Cardinality(run)
    /\ UNCHANGED <<audioUtils, chunks, API_KEY, connectionState, error, refs, playback,
                   resources, remote, currentTime, pc, decoding, nAttempts, nMsgs,
                   history, closureConnected>>

NextVolume ==
    \/ NextApp
    \/ \E level \in Levels : animationFrame(level)

SpecVolume == Init /\ [][NextVolume]_vars

(***************************************************************************)
(* The audio utilities (src/unnamed/part_000).  A float sample is the      *)
(* rational n / Unit, held as n: with Unit = 2^16 every such sample is a   *)
(* float32 and every product below is exact in a double.  A decoded        *)
(* sample is q / 32768, held as q.                                         *)
(***************************************************************************)
\* floor(a * m / d) and the remainder of a * m by d for naturals a, m, d, computed in
\* pieces that stay below 2^31
MulDiv(a, m, d) ==
    LET r == a % d
        t == r * (m \div 256)
    IN (a \div d) * m + 256 * (t \div d) + (256 * (t % d) + r * (m % 256)) \div d

MulRem(a, m, d) ==
    LET r == a % d
        t == r * (m \div 256)
    IN (256 * (t % d) + r * (m % 256)) % d

\* the sample n / Unit times the scale, as DataView.setInt16 converts it with ToInt16:
\* truncated toward zero ...
ScaleTrunc(n, scale) ==
    IF n >= 0 THEN MulDiv(n, scale, Unit) ELSE -MulDiv(-n, scale, Unit)

\* ... and reduced modulo 2^16 into [-32768, 32767]
ToInt16(x) == LET m == x % 65536 IN IF m >= 32768 THEN m - 65536 ELSE m

\* line 7: Math.max(-1, Math.min(1, float32Arr[i]))
Clamp(n) == Max(-Unit, Min(Unit, n))

\* lines 7-8 with one scale for both signs
SampleToInt16OneScale(n) == ToInt16(ScaleTrunc(Clamp(n), 32768))

\* lines 7-8 without the clamp of line 7
SampleToInt16Unclamped(n) == ToInt16(ScaleTrunc(n, IF n < 0 THEN 32768 ELSE 32767))

\* lines 7-8: the 16-bit integer stored for the sample n / Unit
SampleToInt16(n) ==
    LET s == Clamp(n)
    IN ToInt16(ScaleTrunc(s, IF s < 0 THEN 32768 ELSE 32767))

\* lines 3-11: setInt16(i * 2, v, true) stores v as two bytes, low byte first
float32To16BitPCM(float32Arr) ==
    [j \in 1 .. 2 * Len(float32Arr) |->
        LET v == SampleToInt16(float32Arr[(j + 1) \div 2])
        IN IF j % 2 = 1 THEN v % 256 ELSE (v \div 256) % 256]

\* line 81: new Int16Array(arrayBuffer) reads each pair of bytes, low byte first
Int16Array(arrayBuffer) ==
    [i \in 1 .. Len(arrayBuffer) \div 2 |->
        ToInt16(arrayBuffer[2 * i - 1] + 256 * arrayBuffer[2 * i])]

\* lines 81-86: float32Data[i] = dataInt16[i] / 32768.0, held as its numerator
decodeAudioData(arrayBuffer) == Int16Array(arrayBuffer)

\* Math.round of the non-negative rational num / den: halves round up
Round(num, den) == (2 * num + den) \div (2 * den)

\* lines 48-61: a zero-filled Float32Array of newLength samples, each taken from the
\* input at round(i * ratio) unless that index is outside the input
Decimate(buf, inRate, outRate, newLength) ==
    [i \in 1 .. newLength |->
        LET index == Round((i - 1) * inRate, outRate)
        IN IF index < Len(buf) THEN buf[index + 1] ELSE 0]

\* lines 33-64 with Math.floor for Math.round at line 47
downsampleBufferFloor(buf, inRate, outRate) ==
    IF inRate = outRate THEN buf
    ELSE IF inRate < outRate THEN buf
    ELSE Decimate(buf, inRate, outRate, (Len(buf) * outRate) \div inRate)

\* lines 33-64 without the guard of lines 41-44
downsampleBufferNoGuard(buf, inRate, outRate) ==
    IF inRate = outRate THEN buf
    ELSE Decimate(buf, inRate, outRate, Round(Len(buf) * outRate, inRate))

\* lines 33-64 with Math.ceil for Math.round at line 47
downsampleBufferCeil(buf, inRate, outRate) ==
    IF inRate = outRate THEN buf
    ELSE IF inRate < outRate THEN buf
    ELSE Decimate(buf, inRate, outRate, (Len(buf) * outRate + inRate - 1) \div inRate)

\* lines 33-64; sampleRateRatio = inRate / outRate, so buffer.length / sampleRateRatio
\* is Len(buf) * outRate / inRate
downsampleBuffer(buf, inRate, outRate) ==
    IF inRate = outRate THEN buf
    ELSE IF inRate < outRate THEN buf
    ELSE Decimate(buf, inRate, outRate, Round(Len(buf) * outRate, inRate))

\* the session is not started while the utilities run
SessionIdle == InitSession /\ API_KEY

(***************************************************************************)
(* float32To16BitPCM followed by decodeAudioData on one-sample frames of   *)
(* every value of the range, and on the empty frame.                       *)
(***************************************************************************)
Samples == (-OverRange * Unit) .. (OverRange * Unit)

InitPcm ==
    /\ SessionIdle
    /\ buffer \in {<<>>} \cup {<<n>> : n \in Samples}
    /\ inputSampleRate = 0 /\ outputSampleRate = 0
    /\ result = <<>> /\ pcm = <<>> /\ float32Data = <<>>
    /\ pcmBlob = NoBlob
    /\ stage = "input"

\* createPcmBlob, line 67
encode ==
    /\ stage = "input"
    /\ pcm' = float32To16BitPCM(buffer)
    /\ stage' = "encoded"
    /\ UNCHANGED <<buffer, inputSampleRate, outputSampleRate, result, float32Data,
                   pcmBlob>>
    /\ UNCHANGED <<API_KEY, connectionState, error, refs, playback, resources, remote,
                   currentTime, pc, decoding, nAttempts, nMsgs, history, chunks, monitor>>

\* decodeAudioData, lines 80-86
decode ==
    /\ stage = "encoded"
    /\ float32Data' = decodeAudioData(pcm)
    /\ stage' = "decoded"
    /\ UNCHANGED <<buffer, inputSampleRate, outputSampleRate, result, pcm, pcmBlob>>
    /\ UNCHANGED <<API_KEY, connectionState, error, refs, playback, resources, remote,
                   currentTime, pc, decoding, nAttempts, nMsgs, history, chunks, monitor>>

NextPcm == encode \/ decode

SpecPcm == InitPcm /\ [][NextPcm]_vars

(***************************************************************************)
(* downsampleBuffer on frames whose sample at index i is (i + 1) / Unit,   *)
(* so that every sample of the result tells the index it was taken from    *)
(* and none is 0.                                                          *)
(***************************************************************************)
BlockSize == 4096
Rates == {8000, 11025, 16000, 22050, 24000, 32000, 44100, 48000, 96000}
Lengths == (0 .. MaxLen) \cup {BlockSize}
Ramp(len) == [i \in 1 .. len |-> i]

InitResample ==
    /\ SessionIdle
    /\ \E len \in Lengths : buffer = Ramp(len)
    /\ inputSampleRate \in Rates
    /\ outputSampleRate \in Rates
    /\ result = <<>> /\ pcm = <<>> /\ float32Data = <<>>
    /\ pcmBlob = NoBlob
    /\ stage = "input"

\* a call of downsampleBuffer, as at line 138
resample ==
    /\ stage = "input"
    /\ result' = downsampleBuffer(buffer, inputSampleRate, outputSampleRate)
    /\ stage' = "resampled"
    /\ UNCHANGED <<buffer, inputSampleRate, outputSampleRate, pcm, float32Data,
                   pcmBlob>>
    /\ UNCHANGED <<API_KEY, connectionState, error, refs, playback, resources, remote,
                   currentTime, pc, decoding, nAttempts, nMsgs, history, chunks, monitor>>

NextResample == resample

SpecResample == InitResample /\ [][NextResample]_vars

(***************************************************************************)
(* The capture callback on one block of the script processor, for every    *)
(* rate the input context may report: downsampleBuffer to the target rate, *)
(* then createPcmBlob with the target rate as the tag.                     *)
(***************************************************************************)
TargetRate == 16000

\* the sample rates an AudioContext may run at: the common hardware rates and every
\* whole number of kHz from 8 kHz up
HardwareRates == Rates \cup {1000 * i : i \in 8 .. MaxKHz}

\* btoa of the bytes: four digits for every three bytes, 64 standing for the padding '='
arrayBufferToBase64(bytes) ==
    LET len == Len(bytes)
        At(i) == IF i <= len THEN bytes[i] ELSE 0
        Digit(j) ==
            LET g == (j - 1) \div 4
                pos == (j - 1) % 4
                triple == At(3 * g + 1) * 65536 + At(3 * g + 2) * 256 + At(3 * g + 3)
            IN  CASE pos = 0 -> triple \div 262144
                  [] pos = 1 -> (triple \div 4096) % 64
                  [] pos = 2 -> IF 3 * g + 2 > len THEN 64 ELSE (triple \div 64) % 64
                  [] pos = 3 -> IF 3 * g + 3 > len THEN 64 ELSE triple % 64
    IN  [j \in 1 .. 4 * ((len + 2) \div 3) |-> Digit(j)]

createPcmBlob(data, sampleRate) ==
    [data |-> arrayBufferToBase64(float32To16BitPCM(data)), mimeType |-> sampleRate]

InitCapture ==
    /\ SessionIdle
    /\ buffer = Ramp(BlockSize)
    /\ inputSampleRate \in HardwareRates
    /\ outputSampleRate = TargetRate
    /\ result = <<>> /\ pcm = <<>> /\ float32Data = <<>>
    /\ pcmBlob = NoBlob
    /\ stage = "input"

\* onaudioprocess, lines 134-140: the Blob the callback hands to sendRealtimeInput
audioprocess ==
    /\ stage = "input"
    /\ result' = downsampleBuffer(buffer, inputSampleRate, TargetRate)
    /\ pcmBlob' = createPcmBlob(result', TargetRate)
    /\ stage' = "captured"
    /\ UNCHANGED <<buffer, inputSampleRate, outputSampleRate, pcm, float32Data>>
    /\ UNCHANGED <<API_KEY, connectionState, error, refs, playback, resources, remote,
                   currentTime, pc, decoding, nAttempts, nMsgs, history, chunks, monitor>>

NextCapture == audioprocess

SpecCapture == InitCapture /\ [][NextCapture]_vars

(***************************************************************************)
(* Properties                                                              *)
(***************************************************************************)
\* an entry that sounds: started on a running context and not stopped before its start
Plays(e) == e.audible /\ (e.stoppedAt = -1 \/ e.stoppedAt > EffStart(e))

\* the entries scheduled before entry j on the same context that sound
Before(j) ==
    {i \in 1 .. (j - 1) : Plays(scheduled[i]) /\ scheduled[i].ctx = scheduled[j].ctx}

Last(S) == CHOOSE i \in S : \A j \in S : j <= i

\* nothing of connect() or of a session is still to run
Quiescent ==
    /\ decoding = <<>>
    /\ \A k \in Attempts : pc[k] # "awaitMic" /\ socket[k] \notin {"connecting", "closing"}

Released ==
    /\ processorRef = 0 /\ inputSourceRef = 0 /\ streamRef = 0
    /\ inputContextRef = 0 /\ outputContextRef = 0
    /\ sourcesRef = {} /\ nextStartTimeRef = 0

\* C1: playback non-overlap.  No two entries that sound on the same output context
\* overlap, and an entry starts at the later of the clock at the moment it is
\* scheduled and the end of the entry scheduled before it.
C1_NoOverlap ==
    \A j \in DOMAIN scheduled :
        Plays(scheduled[j]) =>
            /\ \A i \in Before(j) : EffEnd(scheduled[i]) <= EffStart(scheduled[j])
            /\ EffStart(scheduled[j]) =
                   Max(scheduled[j].at,
                       IF Before(j) = {} THEN 0 ELSE EffEnd(scheduled[Last(Before(j))]))

\* C2: disconnecting at any time releases everything.  Once disconnect() was the
\* caller's last request and nothing of connect() or of a session is still to run, no
\* capture callback is installed, no microphone stream is live or held, the live set
\* is empty and the cursor is 0.
C2_DisconnectReleases ==
    (lastCall = "disconnect" /\ Quiescent) =>
        /\ processorRef = 0 /\ \A k \in Attempts : processor[k] # "capturing"
        /\ streamRef = 0 /\ \A k \in Attempts : stream[k] # "live"
        /\ sourcesRef = {} /\ nextStartTimeRef = 0

\* C3: interruption.  From an interruption until the next audio message the cursor is 0
\* and the live set is empty, and that next audio message computes the clock's current
\* time as its start.
C3_InterruptionResets ==
    [][/\ afterInterrupt' => (nextStartTimeRef' = 0 /\ sourcesRef' = {})
       /\ (afterInterrupt /\ Len(decoding') = Len(decoding) + 1)
              => nextStartTimeRef' = currentTime[outputContextRef]]_vars

\* C4: interrupt and teardown cancel chunks in flight.  When a handler that was
\* suspended at its decode across an interruption or a disconnect() resumes with the
\* live set empty and the cursor 0, it schedules nothing: the live set stays empty and
\* the cursor stays 0.
C4_InFlightCancelled ==
    [][(/\ decoding # <<>>
        /\ decoding' = Tail(decoding)
        /\ Head(decoding).cancelled
        /\ sourcesRef = {} /\ nextStartTimeRef = 0)
       => (sourcesRef' = {} /\ nextStartTimeRef' = 0 /\ scheduled' = scheduled)]_vars

\* C5: back-to-back playback.  When, since the entry scheduled before it, the cursor was
\* neither reset nor found behind the clock, an entry is started where that entry
\* ends: start(n+1) = start(n) + d(n); and entries are started in arrival order.
C5_BackToBack ==
    \A n \in DOMAIN scheduled :
        n > 1 =>
            /\ scheduled[n].msg > scheduled[n - 1].msg
            /\ scheduled[n].contig =>
                   /\ scheduled[n].when = scheduled[n - 1].when + scheduled[n - 1].dur
                   /\ scheduled[n].when > scheduled[n - 1].when

\* C5 witness: two chunks of different arrival, the second started where the first ends
\* while the first is still live
C5_Witness ==
    /\ Len(scheduled) >= 2
    /\ scheduled[2].contig
    /\ scheduled[1].dur = MaxDur
    /\ sourcesRef = {1, 2}

\* C6: a start request without a credential leaves the state Error with a message.
C6_MissingKeyIsError ==
    (~API_KEY /\ lastCall = "connect") => (connectionState = "ERROR" /\ error # NoError)

\* C7: a rejected session promise ends in Error.  Once the promise held in
\* sessionPromiseRef is rejected and nothing is left to run, the state is Error with a
\* message.
C7_HandshakeFailureIsError ==
    (/\ sessionPromiseRef # 0
     /\ promise[sessionPromiseRef] = "rejected"
     /\ Quiescent) => (connectionState = "ERROR" /\ error # NoError)

\* C8: a runtime fault enters Error.  When onerror has run, the state is Error.
C8_RuntimeFaultIsError ==
    [][(\E k \in Attempts : onerror(k)) => connectionState' = "ERROR"]_vars

\* C9: Error implies teardown.  In state Error no context, stream or processor is held,
\* the live set is empty and the cursor is 0.
C9_ErrorImpliesTeardown ==
    connectionState = "ERROR" => Released

\* C10: disconnect() while Disconnected is a no-op on the connection state, the held
\* resources, the session handle, the cursor and the live set.
C10_DisconnectNoOp ==
    [][(connectionState = "DISCONNECTED" /\ disconnect)
       => UNCHANGED <<connectionState, refs, resources, nextStartTimeRef, sourcesRef>>]_vars

\* C11: resource release is idempotent.  disconnect() can be invoked in every state, and
\* in the state a disconnect() leaves, a second disconnect() changes nothing.
C11_DisconnectIdempotent ==
    /\ [](ENABLED disconnect)
    /\ [][disconnect => ~(ENABLED (disconnect /\ vars' # vars))']_vars

\* C11 witness: disconnect() has run in the middle of connect(), on contexts that were
\* created while no stream, session or pipeline existed yet
C11_Witness ==
    /\ lastCall = "disconnect"
    /\ \E k \in Attempts :
           pc[k] = "awaitMic" /\ inputCtx[k] = "closed" /\ stream[k] = "none"

\* C12: lifecycle edges.  The state becomes Connected only by the session's onopen and
\* only from Connecting: never from Disconnected or Error.
C12_ConnectedOnlyFromConnecting ==
    [][(connectionState # "CONNECTED" /\ connectionState' = "CONNECTED")
       => (connectionState = "CONNECTING" /\ \E k \in Attempts : onopen(k))]_vars

\* the sample n / Unit lies in [-1, 1], as the samples of an AudioFrame do
InRange(n) == -Unit <= n /\ n <= Unit

Abs(n) == IF n < 0 THEN -n ELSE n

\* v - s in units of 1/32768, for the decoded sample v = q / 32768 and the sample
\* s = n / Unit mirrored to s >= 0: the whole part and the part below one unit
ErrWhole(n, q) == MulDiv(Abs(n), 32768, Unit) - (IF n < 0 THEN -q ELSE q)
ErrPart(n) == MulRem(Abs(n), 32768, Unit)

\* |v - s| <= k / 32768
WithinClosed(n, q, k) ==
    /\ ErrWhole(n, q) >= -k
    /\ ErrWhole(n, q) < k \/ (ErrWhole(n, q) = k /\ ErrPart(n) = 0)

\* |v - s| < k / 32768
WithinOpen(n, q, k) ==
    /\ ErrWhole(n, q) < k
    /\ ErrWhole(n, q) > -k \/ (ErrWhole(n, q) = -k /\ ErrPart(n) > 0)

\* C13 as stated: sample-format round trip.  For every sample s in [-1, 1] of a frame,
\* float32To16BitPCM followed by the division by 32768 of decodeAudioData yields v with
\* |v - s| <= 1/32768.
C13_RoundTrip ==
    stage = "decoded" =>
        /\ Len(float32Data) = Len(buffer)
        /\ \A i \in DOMAIN buffer :
               InRange(buffer[i]) => WithinClosed(buffer[i], float32Data[i], 1)

\* C13 as amended: for every sample s in [-1, 1] the round trip yields v with
\* |v - s| < 2/32768, and with |v - s| <= 1/32768 when s <= 0.
C13_RoundTripAmended ==
    stage = "decoded" =>
        /\ Len(float32Data) = Len(buffer)
        /\ \A i \in DOMAIN buffer :
               InRange(buffer[i]) =>
                   /\ WithinOpen(buffer[i], float32Data[i], 2)
                   /\ buffer[i] <= 0 => WithinClosed(buffer[i], float32Data[i], 1)

\* C13 witness: the sample just below 1.0 has made the round trip and came back more
\* than 1/32768 lower
C13_Witness ==
    /\ stage = "decoded"
    /\ buffer = <<Unit - 1>>
    /\ ~WithinClosed(buffer[1], float32Data[1], 1)

\* the 16-bit integers float32To16BitPCM has stored in pcm
Stored == Int16Array(pcm)

\* C14: forward conversion.  For every sample s, also outside [-1, 1], with c the
\* sample clamped to [-1, 1], the integer stored is trunc(c * 32767) when c >= 0 and
\* trunc(c * 32768) when c < 0; it lies in [-32768, 32767]; 1.0 gives 32767 and -1.0
\* gives -32768.
C14_ForwardConversion ==
    stage = "encoded" =>
        /\ Len(pcm) = 2 * Len(buffer)
        /\ \A i \in DOMAIN buffer :
               LET c == IF buffer[i] > Unit THEN Unit
                        ELSE IF buffer[i] < -Unit THEN -Unit ELSE buffer[i]
               IN /\ c >= 0 => Stored[i] = MulDiv(c, 32767, Unit)
                  /\ c < 0 => Stored[i] = -MulDiv(-c, 32768, Unit)
                  /\ -32768 <= Stored[i] /\ Stored[i] <= 32767
                  /\ buffer[i] = Unit => Stored[i] = 32767
                  /\ buffer[i] = -Unit => Stored[i] = -32768

\* C14 witness: a sample above 1.0 has been converted and stored as 32767
C14_Witness ==
    /\ stage = "encoded"
    /\ buffer = <<OverRange * Unit>>
    /\ pcm = <<255, 127>>

C16_PassThrough ==
    (stage = "resampled" /\ inputSampleRate <= outputSampleRate) => result = buffer

\* C16 witness: a frame of the greatest length below the target rate came back unchanged
C16_Witness ==
    /\ stage = "resampled"
    /\ inputSampleRate < outputSampleRate
    /\ Len(buffer) = MaxLen
    /\ result = buffer

\* C17: per-chunk errors do not stop the stream.  A captured chunk whose send fails
\* changes neither the connection state nor the live set, nor the refs, the capture
\* callbacks or the sessions, and it is not sent later; a chunk captured afterwards is
\* sent when its session is open and its send does not throw.  A received chunk whose
\* decode fails changes neither the connection state nor the live set and is not
\* scheduled; a chunk that decodes is scheduled and joins the live set.
C17_ChunkErrorsDropped ==
    [][/\ Len(chunks') = Len(chunks) + 1 =>
              LET c == chunks'[Len(chunks')]
              IN /\ c.status = "dropped" =>
                        UNCHANGED <<connectionState, playback, refs, resources, remote>>
                 /\ (/\ c.to # 0 /\ ~c.threw
                     /\ promise[c.to] = "resolved" /\ socket[c.to] = "open")
                        => c.status = "sent"
       /\ \A i \in DOMAIN chunks :
              chunks[i].status = "dropped" =>
                  (i \in DOMAIN chunks' /\ chunks'[i] = chunks[i])
       /\ (onmessageResume /\ ~Head(decoding).ok /\ ~Head(decoding).interrupted) =>
              UNCHANGED <<connectionState, sourcesRef, scheduled>>
       /\ (onmessageResume /\ Head(decoding).ok /\ ~Head(decoding).interrupted) =>
              /\ Len(scheduled') = Len(scheduled) + 1
              /\ scheduled'[Len(scheduled')].msg = Head(decoding).msg
              /\ sourcesRef' = sourcesRef \cup {Len(scheduled')}
              /\ connectionState' = connectionState]_vars

\* C17 witness: a send threw and the chunk captured next was sent; the first received
\* chunk failed to decode and the second is playing
C17_Witness ==
    /\ Len(chunks) = 2
    /\ chunks[1].threw /\ chunks[1].status = "dropped"
    /\ chunks[2].to = chunks[1].to /\ chunks[2].status = "sent"
    /\ Len(scheduled) = 1 /\ scheduled[1].msg = 2 /\ sourcesRef = {1}
    /\ connectionState = "CONNECTED"

C19_SinglePipeline ==
    /\ Cardinality({k \in Attempts : stream[k] = "live"}) <= 1
    /\ Cardinality({k \in Attempts : Capturing(k)}) <= 1

\* session k was disconnected (its close is requested or under way) and a newer
\* connect() has been made
StaleSession(k) ==
    /\ k \in closeRequested \/ socket[k] = "closing"
    /\ k < nAttempts

\* C20: stale session isolation.  After disconnect() followed by a new connect(), a
\* callback still delivered by the earlier session changes neither the connection
\* state, nor the cursor, the live set, the refs or the audio resources.
C20_StaleSessionIsolated ==
    [][\A k \in Attempts :
           (StaleSession(k) /\ (onopen(k) \/ onclose(k) \/ onerror(k)))
               => UNCHANGED <<connectionState, nextStartTimeRef, sourcesRef, refs,
                              resources>>]_vars

\* the bytes a base64 text stands for: three for every four digits, less the padding
Base64Bytes(text) ==
    3 * (Len(text) \div 4) - Cardinality({j \in 1 .. Len(text) : text[j] = 64})

\* C21: whatever rate R the input context runs at, the Blob the capture callback hands
\* to the session is tagged with the target rate 16000 and holds the block resampled to
\* that rate, round(4096 * 16000 / R) samples of two bytes each.
C21_TaggedRateMatchesData ==
    stage = "captured" =>
        /\ pcmBlob.mimeType = TargetRate
        /\ Base64Bytes(pcmBlob.data) = 2 * Round(BlockSize * TargetRate, inputSampleRate)

\* the session's onopen has built the capture pipeline and so reached the call that
\* starts the volume loop
LoopStarted == processorRef # 0 /\ processor[processorRef] = "capturing"

\* C22: once onopen has started the volume loop, every animation frame that finds the
\* connection state CONNECTED sets the volume from the input analyser and requests the
\* next frame.
C22_VolumeMonitoring ==
    [][(nFrames' = nFrames + 1 /\ connectionState = "CONNECTED" /\ LoopStarted)
          => (nSetVolume' > nSetVolume /\ rafCallbacks' # {})]_vars

====
